---- MODULE Spec2Model ----
(***************************************************************************)
(* Model of the nwsrs report parser (src/extract_chess_results.py):        *)
(*   - extract_tournament_info: the heading parser,                        *)
(*   - parse_section_results : the section table parser.                   *)
(* Text is modelled by TLA+ strings; every string function of the Python   *)
(* code (strip, split, join, isdigit, int, float, re.search, re.match, in) *)
(* is computed character by character on them.                             *)
(***************************************************************************)
EXTENDS Integers, Sequences, FiniteSets, TLC

(***************************************************************************)
(* Characters and character classes                                        *)
(***************************************************************************)
Ch(s, i) == SubSeq(s, i, i)

DigitSeq == "0123456789"
UpperSeq == "ABCDEFGHIJKLMNOPQRSTUVWXYZ"
LowerSeq == "abcdefghijklmnopqrstuvwxyz"

CharsOf(s) == {Ch(s, i) : i \in 1..Len(s)}

Digits == CharsOf(DigitSeq)
UpperCase == CharsOf(UpperSeq)
LowerCase == CharsOf(LowerSeq)
Letters == UpperCase \cup LowerCase
\* \w of the re module (ASCII part)
WordChars == Letters \cup Digits \cup {"_"}
\* \s of the re module, and the characters str.strip() / str.split() drop
WhiteSpace == {" ", "\t", "\n", "\r"}

SetMin(S) == CHOOSE m \in S : \A n \in S : m <= n
SetMax(S) == CHOOSE m \in S : \A n \in S : m >= n

\* position of character c in the string s (0 when absent)
IndexIn(s, c) ==
    LET hits == {i \in 1..Len(s) : Ch(s, i) = c}
    IN  IF hits = {} THEN 0 ELSE SetMin(hits)

DigitVal(c) == IndexIn(DigitSeq, c) - 1

\* str.lower() on one character
LowerCh(c) == IF c \in UpperCase THEN Ch(LowerSeq, IndexIn(UpperSeq, c)) ELSE c

RECURSIVE Lower(_)
Lower(s) == IF s = "" THEN "" ELSE LowerCh(Head(s)) \o Lower(Tail(s))

(***************************************************************************)
(* Python string functions                                                 *)
(***************************************************************************)
\* s[a:] for a 1-based first index
From(s, a) == IF a > Len(s) THEN "" ELSE SubSeq(s, a, Len(s))

\* s[:b] keeping the first b characters
Upto(s, b) == IF b <= 0 THEN "" ELSE SubSeq(s, 1, b)

\* str.strip()
Strip(s) ==
    LET keep == {i \in 1..Len(s) : Ch(s, i) \notin WhiteSpace}
    IN  IF keep = {} THEN "" ELSE SubSeq(s, SetMin(keep), SetMax(keep))

\* str.rstrip(',') : every trailing comma goes
RStripComma(s) ==
    LET keep == {i \in 1..Len(s) : Ch(s, i) # ","}
    IN  IF keep = {} THEN "" ELSE SubSeq(s, 1, SetMax(keep))

\* str.rstrip('/')
RStripSlash(s) ==
    LET keep == {i \in 1..Len(s) : Ch(s, i) # "/"}
    IN  IF keep = {} THEN "" ELSE SubSeq(s, 1, SetMax(keep))

\* str.startswith / str.endswith
StartsWith(s, p) == Len(s) >= Len(p) /\ SubSeq(s, 1, Len(p)) = p
EndsWith(s, p) == Len(s) >= Len(p) /\ SubSeq(s, Len(s) - Len(p) + 1, Len(s)) = p

\* str.find(sub) + 1 : index of the first occurrence of sub, 0 when absent
Find(s, sub) ==
    LET hits == {i \in 1..(Len(s) - Len(sub) + 1) : SubSeq(s, i, i + Len(sub) - 1) = sub}
    IN  IF hits = {} THEN 0 ELSE SetMin(hits)

\* sub in s
Contains(s, sub) == Find(s, sub) # 0

\* str.split(sep) for a non-empty separator: cuts at EVERY occurrence
RECURSIVE Split(_, _)
Split(s, sep) ==
    LET p == Find(s, sep)
    IN  IF p = 0 THEN <<s>>
        ELSE <<Upto(s, p - 1)>> \o Split(From(s, p + Len(sep)), sep)

\* str.split() : whitespace-separated tokens, none empty
RECURSIVE SplitWs(_)
SplitWs(s) ==
    LET t == Strip(s)
        ws == {i \in 1..Len(t) : Ch(t, i) \in WhiteSpace}
    IN  IF t = "" THEN <<>>
        ELSE IF ws = {} THEN <<t>>
        ELSE <<Upto(t, SetMin(ws) - 1)>> \o SplitWs(From(t, SetMin(ws)))

\* " ".join(seq)
RECURSIVE JoinSp(_)
JoinSp(seq) ==
    IF Len(seq) = 0 THEN ""
    ELSE IF Len(seq) = 1 THEN seq[1]
    ELSE seq[1] \o " " \o JoinSp(Tail(seq))

\* str.isdigit() (ASCII part)
IsDigit(s) == s # "" /\ \A i \in 1..Len(s) : Ch(s, i) \in Digits

\* digits with single underscores between them: Python's digitpart
IsDigitPart(s) ==
    /\ s # ""
    /\ Ch(s, 1) \in Digits
    /\ Ch(s, Len(s)) \in Digits
    /\ \A i \in 1..Len(s) : Ch(s, i) \in Digits \cup {"_"}
    /\ \A i \in 1..(Len(s) - 1) : ~(Ch(s, i) = "_" /\ Ch(s, i + 1) = "_")

Unsigned(s) == IF s # "" /\ Head(s) \in {"+", "-"} THEN Tail(s) ELSE s

\* int(s) does not raise ValueError
IntParses(s) == IsDigitPart(Unsigned(Strip(s)))

RECURSIVE DigitsVal(_, _)
DigitsVal(s, acc) ==
    IF s = "" THEN acc
    ELSE IF Head(s) = "_" THEN DigitsVal(Tail(s), acc)
    ELSE DigitsVal(Tail(s), 10 * acc + DigitVal(Head(s)))

\* int(s), for IntParses(s)
IntVal(s) ==
    LET t == Strip(s)
    IN  IF Head(t) = "-" THEN 0 - DigitsVal(Tail(t), 0) ELSE DigitsVal(Unsigned(t), 0)

\* the value of float(s) as mant * 10^exp, without trailing zeros in mant
RECURSIVE Normal(_, _)
Normal(m, e) ==
    IF m = 0 THEN [mant |-> 0, exp |-> 0, special |-> ""]
    ELSE IF m % 10 = 0 THEN Normal(m \div 10, e + 1)
    ELSE [mant |-> m, exp |-> e, special |-> ""]

\* the part of a float literal before / after its exponent mark
Mantissa(t) == IF IndexIn(t, "e") = 0 THEN t ELSE Upto(t, IndexIn(t, "e") - 1)
Exponent(t) == IF IndexIn(t, "e") = 0 THEN "0" ELSE From(t, IndexIn(t, "e") + 1)
IntPart(m) == IF IndexIn(m, ".") = 0 THEN m ELSE Upto(m, IndexIn(m, ".") - 1)
FracPart(m) == IF IndexIn(m, ".") = 0 THEN "" ELSE From(m, IndexIn(m, ".") + 1)

IsMantissa(m) ==
    /\ IntPart(m) = "" \/ IsDigitPart(IntPart(m))
    /\ FracPart(m) = "" \/ IsDigitPart(FracPart(m))
    /\ ~(IntPart(m) = "" /\ FracPart(m) = "")

\* float(s) does not raise ValueError
FloatParses(s) ==
    LET t == Lower(Unsigned(Strip(s)))
    IN  \/ t \in {"inf", "infinity", "nan"}
        \/ /\ IsMantissa(Mantissa(t))
           /\ IsDigitPart(Unsigned(Exponent(t)))

RECURSIVE CountDigits(_)
CountDigits(s) ==
    IF s = "" THEN 0
    ELSE (IF Head(s) \in Digits THEN 1 ELSE 0) + CountDigits(Tail(s))

\* float(s), for FloatParses(s)
FloatVal(s) ==
    LET t == Lower(Unsigned(Strip(s)))
        neg == Head(Strip(s)) = "-"
        m == Mantissa(t)
        mag == DigitsVal(IntPart(m) \o FracPart(m), 0)
    IN  IF t \in {"inf", "infinity"}
        THEN [mant |-> IF neg THEN 0 - 1 ELSE 1, exp |-> 0, special |-> "inf"]
        ELSE IF t = "nan" THEN [mant |-> 0, exp |-> 0, special |-> "nan"]
        ELSE Normal(IF neg THEN 0 - mag ELSE mag,
                    IntVal(Exponent(t)) - CountDigits(FracPart(m)))

(***************************************************************************)
(* The regular expressions of the code                                     *)
(***************************************************************************)
\* first index >= i whose character is not whitespace (Len(s) + 1 if none)
SkipWs(s, i) ==
    SetMin({j \in i..Len(s) : Ch(s, j) \notin WhiteSpace} \cup {Len(s) + 1})

InClass(s, i, class) == i >= 1 /\ i <= Len(s) /\ Ch(s, i) \in class

\* \d{1,2}, at q: index of the comma that follows 2 digits, else 1 digit; 0: no match
DayComma(s, q) ==
    IF InClass(s, q, Digits) /\ InClass(s, q + 1, Digits) /\ InClass(s, q + 2, {","})
    THEN q + 2
    ELSE IF InClass(s, q, Digits) /\ InClass(s, q + 1, {","}) THEN q + 1
    ELSE 0

\* date_pattern = r'(\w{3}\s+\d{1,2},\s+\d{4})' matched at index p:
\* the index of the last matched character, 0 when there is no match at p
DateMatchAt(s, p) ==
    LET q == SkipWs(s, p + 3)
        c == DayComma(s, q)
        y == SkipWs(s, c + 1)
    IN  IF /\ \A k \in 0..2 : InClass(s, p + k, WordChars)
           /\ q > p + 3
           /\ c # 0
           /\ y > c + 1
           /\ \A k \in 0..3 : InClass(s, y + k, Digits)
        THEN y + 3
        ELSE 0

\* re.search(date_pattern, s): the leftmost match; start = 0 when None
DateSearch(s) ==
    LET hits == {p \in 1..Len(s) : DateMatchAt(s, p) # 0}
    IN  IF hits = {} THEN [start |-> 0, end |-> 0]
        ELSE [start |-> SetMin(hits), end |-> DateMatchAt(s, SetMin(hits))]

\* date_match.group(0)
DateGroup(s) == SubSeq(s, DateSearch(s).start, DateSearch(s).end)
HasDate(s) == DateSearch(s).start # 0

\* td_pattern = r'TD:?\s+([A-Za-z]+)' matched at index p: group(1), "" when no match
TdMatchAt(s, p) ==
    LET a == IF InClass(s, p + 2, {":"}) THEN p + 3 ELSE p + 2
        w == SkipWs(s, a)
        stop == SetMin({j \in w..Len(s) : Ch(s, j) \notin Letters} \cup {Len(s) + 1})
    IN  IF /\ p + 1 <= Len(s)
           /\ SubSeq(s, p, p + 1) = "TD"
           /\ w > a
           /\ stop > w
        THEN SubSeq(s, w, stop - 1)
        ELSE ""

\* re.search(td_pattern, s).group(1), "" when None
TdSearch(s) ==
    LET hits == {p \in 1..Len(s) : TdMatchAt(s, p) # ""}
    IN  IF hits = {} THEN "" ELSE TdMatchAt(s, SetMin(hits))

\* re.match(r'^[A-Z0-9]{8}$', part)
IsIdToken(part) ==
    /\ Len(part) = 8
    /\ \A i \in 1..8 : Ch(part, i) \in UpperCase \cup Digits

(***************************************************************************)
(* Python dicts: functions on the set of keys that are present             *)
(***************************************************************************)
EmptyDict == [k \in {} |-> ""]
Has(d, k) == k \in DOMAIN d
Put(d, k, v) == (k :> v) @@ d

(***************************************************************************)
(* Bounds and input sets                                                   *)
(***************************************************************************)
\* a heading text is made of at most MaxItems items of HeadingItems
MaxItems == 5

HeadingItems == {"Open", "Jun 14, 2025", "May 3, 2024", "TD: Bob", "\n"}

HeadingTexts ==
    {JoinSp(q) : q \in UNION {[1..n -> HeadingItems] : n \in 0..MaxItems}}

VARIABLES
    tourney_heading,    \* soup.find found the h3 heading
    heading_text,       \* tourney_heading.get_text()
    head_lines,         \* lines of extract_tournament_info
    tournament_info,    \* the dict extract_tournament_info builds and returns
    hpc,                \* position in extract_tournament_info
    pre_text,           \* argument of parse_section_results
    lines,              \* lines of parse_section_results
    round_columns,      \* (index, label) of the header's round columns
    line_no,            \* index in lines of the next line of the row loop
    parts,              \* tokens of the line processed last
    player,             \* the dict of the row being built
    first_round_idx,    \* cursor after the rating/games fields of that line
    results,            \* the list parse_section_results returns
    tpc,                \* position in parse_section_results
    tournament,         \* rows of table tournament, in insertion order
    section,            \* rows of table section
    player_rows,        \* rows of table player
    player_tournament,  \* rows of table player_tournament
    games,              \* rows of table games
    data,               \* the report process_chess_data loaded
    tournament_id,      \* tournament_id of process_chess_data
    section_no,         \* number of sections of data already handled
    section_id,         \* what the last insert_section call returned
    calls,              \* per tournament id: insert_section calls made so far
    runs,               \* process_chess_data calls started so far
    direct_calls,       \* insert_section calls made outside process_chess_data
    returned,           \* what the last process_chess_data call returned
    spc                 \* position in process_chess_data

headVars == <<tourney_heading, heading_text, head_lines, tournament_info, hpc>>
tableVars == <<pre_text, lines, round_columns, line_no, parts, player,
               first_round_idx, results, tpc>>
storeVars == <<tournament, section, player_rows, player_tournament, games, data,
               tournament_id, section_no, section_id, calls, runs, direct_calls,
               returned, spc>>
vars == <<headVars, tableVars, storeVars>>

(***************************************************************************)
(* extract_tournament_info                                                 *)
(***************************************************************************)
\* [line.strip() for line in seq if line.strip()]
RECURSIVE StripNonEmpty(_)
StripNonEmpty(seq) ==
    IF Len(seq) = 0 THEN <<>>
    ELSE (IF Strip(seq[1]) = "" THEN <<>> ELSE <<Strip(seq[1])>>)
         \o StripNonEmpty(Tail(seq))

\* lines 15-18
HeadingLines(text) == StripNonEmpty(Split(Strip(text), "\n"))

\* lines 26-36: the date is in the first line
DateInFirstLine(first_line) ==
    LET date == DateGroup(first_line)
        pieces == Split(first_line, date)
        info == Put(Put(EmptyDict, "date", date), "tournament", Strip(pieces[1]))
    IN  IF Len(pieces) > 1 /\ Strip(pieces[2]) # ""
        THEN Put(info, "address", Strip(pieces[2]))
        ELSE info

\* lines 42-51: the first later line with a date
RECURSIVE DateInLaterLine(_, _)
DateInLaterLine(info, rest) ==
    IF Len(rest) = 0 THEN info
    ELSE IF HasDate(rest[1])
    THEN LET date == DateGroup(rest[1])
             pieces == Split(rest[1], date)
         IN  IF Len(pieces) > 1 /\ Strip(pieces[2]) # ""
             THEN Put(Put(info, "date", date), "address", Strip(pieces[2]))
             ELSE Put(info, "date", date)
    ELSE DateInLaterLine(info, Tail(rest))

\* lines 22-51
DateStep(ls) ==
    IF HasDate(ls[1]) THEN DateInFirstLine(ls[1])
    ELSE DateInLaterLine(Put(EmptyDict, "tournament", ls[1]), Tail(ls))

\* SkipsLine without the test for the date
SkipsLineTdOnly(info, line) == Contains(line, "TD:")

\* line 57: the line is skipped by the address fallback
SkipsLine(info, line) ==
    \/ Has(info, "date") /\ Contains(line, info["date"])
    \/ Contains(line, "TD:")

\* lines 55-60
RECURSIVE FirstAddressLine(_, _)
FirstAddressLine(info, rest) ==
    IF Len(rest) = 0 THEN info
    ELSE IF SkipsLine(info, rest[1]) THEN FirstAddressLine(info, Tail(rest))
    ELSE Put(info, "address", Strip(rest[1]))

\* lines 54-60
AddressStep(info, ls) ==
    IF ~Has(info, "address") /\ Len(ls) > 1
    THEN FirstAddressLine(info, Tail(ls))
    ELSE info

\* lines 63-68
RECURSIVE TdStep(_, _)
TdStep(info, ls) ==
    IF Len(ls) = 0 THEN info
    ELSE IF TdSearch(ls[1]) # "" THEN Put(info, "TD", TdSearch(ls[1]))
    ELSE TdStep(info, Tail(ls))

\* the tournaments of the reports
TournamentNames == <<"Open", "Cup">>

\* the ids AUTOINCREMENT can give to that many tournaments
TournamentIds == 1..Len(TournamentNames)

\* no report loaded
NoReport == [info |-> EmptyDict, sections |-> <<>>]

\* a fresh database, and process_chess_data not running
StoreIdle ==
    /\ tournament = <<>>
    /\ section = {}
    /\ player_rows = {}
    /\ player_tournament = {}
    /\ games = {}
    /\ data = NoReport
    /\ tournament_id = 0
    /\ section_no = 0
    /\ section_id = 0
    /\ calls = [t \in TournamentIds |-> 0]
    /\ runs = 0
    /\ direct_calls = 0
    /\ returned = "none"
    /\ spc = "idle"

TableIdle ==
    /\ pre_text = ""
    /\ lines = <<>>
    /\ round_columns = <<>>
    /\ line_no = 0
    /\ parts = <<>>
    /\ player = EmptyDict
    /\ first_round_idx = 0
    /\ results = <<>>
    /\ tpc = "idle"

InitHeading ==
    /\ \/ tourney_heading = FALSE /\ heading_text = ""
       \/ tourney_heading = TRUE /\ heading_text \in HeadingTexts
    /\ head_lines = <<>>
    /\ tournament_info = EmptyDict
    /\ hpc = "start"
    /\ TableIdle
    /\ StoreIdle

\* lines 13-20 with no heading or no line: the empty dict is returned
ReturnEmpty ==
    /\ hpc = "start"
    /\ ~tourney_heading \/ Len(HeadingLines(heading_text)) = 0
    /\ hpc' = "done"
    /\ UNCHANGED <<tourney_heading, heading_text, head_lines, tournament_info>>
    /\ UNCHANGED tableVars
    /\ UNCHANGED storeVars

\* lines 13-51
ExtractDate ==
    /\ hpc = "start"
    /\ tourney_heading
    /\ Len(HeadingLines(heading_text)) > 0
    /\ head_lines' = HeadingLines(heading_text)
    /\ tournament_info' = DateStep(head_lines')
    /\ hpc' = "date_done"
    /\ UNCHANGED <<tourney_heading, heading_text>>
    /\ UNCHANGED tableVars
    /\ UNCHANGED storeVars

\* lines 53-60
ExtractAddress ==
    /\ hpc = "date_done"
    /\ tournament_info' = AddressStep(tournament_info, head_lines)
    /\ hpc' = "address_done"
    /\ UNCHANGED <<tourney_heading, heading_text, head_lines>>
    /\ UNCHANGED tableVars
    /\ UNCHANGED storeVars

\* lines 62-70
ExtractTD ==
    /\ hpc = "address_done"
    /\ tournament_info' = TdStep(tournament_info, head_lines)
    /\ hpc' = "done"
    /\ UNCHANGED <<tourney_heading, heading_text, head_lines>>
    /\ UNCHANGED tableVars
    /\ UNCHANGED storeVars

NextHeading == ReturnEmpty \/ ExtractDate \/ ExtractAddress \/ ExtractTD

SpecHeading == InitHeading /\ [][NextHeading]_vars

(***************************************************************************)
(* parse_section_results                                                   *)
(***************************************************************************)
\* parts[i] with Python's 0-based index
At(seq, i) == seq[i + 1]

\* line 87
IsRoundLabel(part) == StartsWith(part, "rd") /\ IsDigit(From(part, 3))

\* lines 84-88: the (index, label) pairs of the header's round columns, in order
RECURSIVE RoundColumnsFrom(_, _)
RoundColumnsFrom(header_parts, i) ==
    IF i >= Len(header_parts) THEN <<>>
    ELSE (IF IsRoundLabel(At(header_parts, i))
          THEN <<(<<i, At(header_parts, i)>>)>> ELSE <<>>)
         \o RoundColumnsFrom(header_parts, i + 1)

\* lines 81-88
RoundColumns(header_line) == RoundColumnsFrom(SplitWs(Strip(header_line)), 0)

\* lines 108-113: index of the first token shaped like an ID, -1 for None;
\* the scan starts at token 0
NameEnd(ps) ==
    LET hits == {i \in 0..(Len(ps) - 1) : IsIdToken(At(ps, i))}
    IN  IF hits = {} THEN 0 - 1 ELSE SetMin(hits)

\* lines 123-129: the start rating; the cursor moves only when it parses
StartRating(pl, ps, idx) ==
    IF idx < Len(ps) /\ IntParses(At(ps, idx))
    THEN [player |-> Put(pl, "start", IntVal(At(ps, idx))), idx |-> idx + 1,
          raised |-> FALSE]
    ELSE [player |-> pl, idx |-> idx, raised |-> FALSE]

\* lines 136-143: "rating/games" in one token
SlashToken(pl, end_games, idx) ==
    LET pieces == Split(end_games, "/")
    IN  IF Len(pieces) # 2
        THEN \* line 137: the unpacking raises ValueError outside any try
             [player |-> pl, idx |-> idx, raised |-> TRUE]
        ELSE IF ~IntParses(pieces[1])
        THEN [player |-> pl, idx |-> idx + 1, raised |-> FALSE]
        ELSE IF ~IntParses(pieces[2])
        THEN [player |-> Put(pl, "end", IntVal(pieces[1])), idx |-> idx + 1,
              raised |-> FALSE]
        ELSE [player |-> Put(Put(pl, "end", IntVal(pieces[1])),
                             "gms", IntVal(pieces[2])),
              idx |-> idx + 1, raised |-> FALSE]

\* lines 146-163: "rating/" then the games in the next token
SlashThenGames(pl, ps, idx) ==
    LET end == RStripSlash(At(ps, idx))
    IN  IF ~IntParses(end)
        THEN [player |-> pl, idx |-> idx + 1, raised |-> FALSE]
        ELSE IF idx + 1 < Len(ps) /\ IntParses(At(ps, idx + 1))
        THEN [player |-> Put(Put(pl, "end", IntVal(end)),
                             "gms", IntVal(At(ps, idx + 1))),
              idx |-> idx + 2, raised |-> FALSE]
        ELSE [player |-> Put(pl, "end", IntVal(end)), idx |-> idx + 1,
              raised |-> FALSE]

\* lines 166-171: a rating alone
RatingOnly(pl, end_games, idx) ==
    IF IntParses(end_games)
    THEN [player |-> Put(pl, "end", IntVal(end_games)), idx |-> idx + 1,
          raised |-> FALSE]
    ELSE [player |-> pl, idx |-> idx + 1, raised |-> FALSE]

\* lines 132-171: the branches in the order of the code
EndRatingGames(pl, ps, idx) ==
    IF idx >= Len(ps) THEN [player |-> pl, idx |-> idx, raised |-> FALSE]
    ELSE IF Contains(At(ps, idx), "/") /\ ~Contains(At(ps, idx), " ")
    THEN SlashToken(pl, At(ps, idx), idx)
    ELSE IF Contains(At(ps, idx), "/") /\ EndsWith(At(ps, idx), "/")
    THEN SlashThenGames(pl, ps, idx)
    ELSE RatingOnly(pl, At(ps, idx), idx)

\* lines 175-181: a bare number after the end rating is the games count
TrailingGames(pl, ps, idx) ==
    IF /\ Has(pl, "end")
       /\ ~Has(pl, "gms")
       /\ idx < Len(ps)
       /\ IsDigit(At(ps, idx))
    THEN [player |-> Put(pl, "gms", IntVal(At(ps, idx))), idx |-> idx + 1,
          raised |-> FALSE]
    ELSE [player |-> pl, idx |-> idx, raised |-> FALSE]

\* RoundResults reading each round at its header column index instead of
\* at the cursor
RECURSIVE RoundResultsAtHeaderIndex(_, _, _, _)
RoundResultsAtHeaderIndex(cols, ps, first, i) ==
    IF i >= Len(cols) THEN <<>>
    ELSE (IF At(cols, i)[1] < Len(ps)
          THEN <<[round |-> At(cols, i)[2], res |-> At(ps, At(cols, i)[1])]>>
          ELSE <<>>)
         \o RoundResultsAtHeaderIndex(cols, ps, first, i + 1)

\* lines 190-197: round i takes the token at first_round_idx + i
RECURSIVE RoundResults(_, _, _, _)
RoundResults(cols, ps, first, i) ==
    IF i >= Len(cols) THEN <<>>
    ELSE (IF first + i < Len(ps)
          THEN <<[round |-> At(cols, i)[2], res |-> At(ps, first + i)]>>
          ELSE <<>>)
         \o RoundResults(cols, ps, first, i + 1)

\* lines 200-205
TotalScore(pl, ps, total_idx) ==
    IF /\ total_idx < Len(ps)
       /\ At(ps, total_idx) # ""
       /\ FloatParses(At(ps, total_idx))
    THEN Put(pl, "tot", FloatVal(At(ps, total_idx)))
    ELSE pl

\* lines 184-205
RoundsAndTotal(pl, ps, cols, first) ==
    TotalScore(Put(pl, "rds", RoundResults(cols, ps, first, 0)),
               ps, first + Len(cols))

\* lines 119-181: names, ratings and games of a row whose ID is at name_end
NamesAndRatings(pl, ps, name_end) ==
    LET named == Put(Put(pl, "last name", RStripComma(At(ps, 1))),
                     "first name", JoinSp(SubSeq(ps, 3, name_end)))
        s == StartRating(named, ps, name_end + 1)
        e == EndRatingGames(s.player, ps, s.idx)
    IN  IF e.raised THEN e ELSE TrailingGames(e.player, ps, e.idx)

\* lines 99-207: one row of at least 10 tokens; what happens to it, the
\* pl dict and the cursor it leaves
ParseRow(ps, cols) ==
    IF ~IntParses(ps[1])
    THEN [outcome |-> "skip", player |-> EmptyDict, idx |-> 0]
    ELSE LET p1 == Put(EmptyDict, "pos", IntVal(ps[1]))
             name_end == NameEnd(ps)
             p2 == IF name_end = 0 - 1 THEN p1 ELSE Put(p1, "id", At(ps, name_end))
         IN  IF name_end < 2
             THEN [outcome |-> "skip", player |-> p2, idx |-> 0]
             ELSE LET f == NamesAndRatings(p2, ps, name_end)
                  IN  IF f.raised
                      THEN [outcome |-> "raise", player |-> f.player, idx |-> f.idx]
                      ELSE [outcome |-> "append",
                            player |-> RoundsAndTotal(f.player, ps, cols, f.idx),
                            idx |-> f.idx]

(***************************************************************************)
(* Table texts                                                             *)
(***************************************************************************)
\* the header has at most MaxRounds round columns
MaxRounds == 4
\* a row has at most MaxNames name tokens before its ID
MaxNames == 3
\* a row has at most MaxCodes result codes
MaxCodes == 5
\* a table of plain lines has at most MaxRows lines after the header
MaxRows == 3

RECURSIVE RoundLabels(_, _)
RoundLabels(i, n) ==
    IF i > n THEN <<>> ELSE <<"rd" \o Ch(DigitSeq, i + 1)>> \o RoundLabels(i + 1, n)

\* a header with n round columns; "end/#gms" and "rdx" name no round
HeaderLine(n) ==
    JoinSp(<<"pos", "last", "first", "id", "start", "end/#gms">>
           \o RoundLabels(1, n) \o <<"rdx", "tot">>)

NameToken(i) == IF i = 1 THEN "Smith,," ELSE IF i = 2 THEN "John" ELSE "Q"
CodeToken(i) ==
    IF i = 1 THEN "W2" ELSE IF i = 2 THEN "D3" ELSE IF i = 3 THEN "L1"
    ELSE IF i = 4 THEN "B" ELSE IF i = 5 THEN "W14" ELSE "H"

RECURSIVE Tokens(_, _, _)
Tokens(Tok(_), i, n) ==
    IF i > n THEN <<>> ELSE <<Tok(i)>> \o Tokens(Tok, i + 1, n)

Opt(tok) == IF tok = "" THEN <<>> ELSE <<tok>>

StartTokens == {"", "1500"}
EndTokens == {"1600/9", "1600/", "1600", "16x0/9", "1600/9/1"}
AfterTokens == {"", "9", "+9"}
TotalTokens == {"2.5", "x"}

\* position 3, names, ID, [start], end/games, [games], codes, total
RowLine(n, start, endg, after, k, tot) ==
    JoinSp(<<"3">> \o Tokens(NameToken, 1, n) \o <<"ABCD1234">> \o Opt(start)
           \o <<endg>> \o Opt(after) \o Tokens(CodeToken, 1, k) \o <<tot>>)

RowLines ==
    {RowLine(n, start, endg, after, k, tot) :
        n \in 0..MaxNames, start \in StartTokens, endg \in EndTokens,
        after \in AfterTokens, k \in 1..MaxCodes, tot \in TotalTokens}

\* lines of the tables with several rows
PlainLines ==
    { "1 Smith, John ABCD1234 1500 1600/9 W2 D3 L1 2.5",
      "  2   Lee,  Ann Mae  WXYZ5678  1400  1450/  9  L1  D3  W2  1.5 ",
      "   ",
      "3 Doe, Jo EFGH1234 1500 1600/9 W2 D3 2.5",
      "x Doe, Jo EFGH1234 1500 1600/9 W2 D3 L1 2.5",
      "4 Doe, Jo efgh1234 1500 1600/9 W2 D3 L1 2.5",
      "5 Doe, Jo EFGH1234 1500 1600/9/1 W2 D3 L1 2.5",
      "12345678 Roe, Al Bo IJKL1234 1500 1600/9 W2 D3 L1 2.5" }

RECURSIVE JoinNl(_)
JoinNl(seq) ==
    IF Len(seq) = 0 THEN "" ELSE seq[1] \o "\n" \o JoinNl(Tail(seq))

\* one row of RowLines under a header of any width
RowTables ==
    {"\n" \o HeaderLine(n) \o "\n" \o row \o "\n" : n \in 0..MaxRounds, row \in RowLines}

\* up to MaxRows plain lines under a header with three round columns
PlainTables ==
    {"\n" \o HeaderLine(3) \o "\n" \o JoinNl(q) :
        q \in UNION {[1..n -> PlainLines] : n \in 0..MaxRows}}

TableTexts == RowTables \cup PlainTables \cup {""}

HeadingIdle ==
    /\ tourney_heading = FALSE
    /\ heading_text = ""
    /\ head_lines = <<>>
    /\ tournament_info = EmptyDict
    /\ hpc = "idle"

InitTable ==
    /\ pre_text \in TableTexts
    /\ lines = <<>>
    /\ round_columns = <<>>
    /\ line_no = 0
    /\ parts = <<>>
    /\ player = EmptyDict
    /\ first_round_idx = 0
    /\ results = <<>>
    /\ tpc = "start"
    /\ HeadingIdle
    /\ StoreIdle

\* lines 74-88 (line 77 never holds: str.split returns at least one string)
ScanHeader ==
    /\ tpc = "start"
    /\ lines' = Split(Strip(pre_text), "\n")
    /\ round_columns' = RoundColumns(lines'[1])
    /\ line_no' = 2
    /\ tpc' = "rows"
    /\ UNCHANGED <<pre_text, parts, player, first_round_idx, results>>
    /\ UNCHANGED headVars
    /\ UNCHANGED storeVars

\* lines 91-207: one pass of the row loop
ProcessLine ==
    /\ tpc = "rows"
    /\ line_no <= Len(lines)
    /\ IF Strip(lines[line_no]) = ""
       THEN /\ line_no' = line_no + 1
            /\ UNCHANGED <<parts, player, first_round_idx, results, tpc>>
       ELSE /\ parts' = SplitWs(lines[line_no])
            /\ IF Len(parts') < 10
               THEN /\ line_no' = line_no + 1
                    /\ UNCHANGED <<player, first_round_idx, results, tpc>>
               ELSE LET r == ParseRow(parts', round_columns)
                    IN  /\ player' = r.player
                        /\ results' = IF r.outcome = "append"
                                      THEN Append(results, r.player) ELSE results
                        /\ first_round_idx' = IF r.outcome = "append"
                                              THEN r.idx ELSE first_round_idx
                        /\ tpc' = IF r.outcome = "raise" THEN "raised" ELSE "rows"
                        /\ line_no' = IF r.outcome = "raise"
                                      THEN line_no ELSE line_no + 1
    /\ UNCHANGED <<pre_text, lines, round_columns>>
    /\ UNCHANGED headVars
    /\ UNCHANGED storeVars

\* line 209
ReturnResults ==
    /\ tpc = "rows"
    /\ line_no > Len(lines)
    /\ tpc' = "done"
    /\ UNCHANGED <<pre_text, lines, round_columns, line_no, parts, player,
                   first_round_idx, results>>
    /\ UNCHANGED headVars
    /\ UNCHANGED storeVars

NextTable == ScanHeader \/ ProcessLine \/ ReturnResults

SpecTable == InitTable /\ [][NextTable]_vars

(***************************************************************************)
(* store_chess_data: the tables, insert_tournament, insert_section,        *)
(* insert_player, insert_player_tournament, insert_games and               *)
(* process_chess_data.  A table is the set of its rows (table tournament   *)
(* the sequence of its rows, row i having the AUTOINCREMENT id i: no row   *)
(* is ever deleted).  A Python dict with string values is a function on    *)
(* the keys it has; a player is a record whose field keys names the keys   *)
(* the dict has.  A nullable column holds {} for NULL and {v} for v.       *)
(***************************************************************************)
\* d.get(k, default)
Get(d, k, default) == IF Has(d, k) THEN d[k] ELSE default

\* lines 81-105; a missing "tournament" or "date" key raises KeyError at
\* line 83 before anything is written
insert_tournament(tbl, td) ==
    IF ~Has(td, "tournament") \/ ~Has(td, "date")
    THEN [ok |-> FALSE, id |-> 0, tournament |-> tbl]
    ELSE LET existing == {i \in 1..Len(tbl) :
                            /\ tbl[i].tournament_name = td["tournament"]
                            /\ tbl[i].date = td["date"]}
         IN  IF existing # {}
             THEN [ok |-> TRUE, id |-> SetMin(existing), tournament |-> tbl]
             ELSE [ok |-> TRUE, id |-> Len(tbl) + 1,
                   tournament |-> Append(tbl,
                       [id |-> Len(tbl) + 1,
                        tournament_name |-> td["tournament"],
                        date |-> Get(td, "date", ""),
                        address |-> Get(td, "address", ""),
                        url |-> Get(td, "url", "")])]

\* the section rows of tournament tid
SectionRows(tbl, tid) == {r \in tbl : r.tournament_id = tid}

\* SELECT MAX(section_id) FROM section: over every tournament's rows
NextSectionIdGlobal(tbl, tid) ==
    LET ids == {r.section_id : r \in tbl}
    IN  (IF ids = {} THEN 0 ELSE SetMax(ids)) + 1

\* lines 139-146: (MAX(section_id) of the tournament's rows, or 0) + 1
NextSectionId(tbl, tid) ==
    LET ids == {r.section_id : r \in SectionRows(tbl, tid)}
    IN  (IF ids = {} THEN 0 ELSE SetMax(ids)) + 1

\* lines 134-156; the INSERT fails on a row with the same primary key
\* (tournament_id, section_id)
insert_section(tbl, tid, name) ==
    LET sid == NextSectionId(tbl, tid)
    IN  IF \E r \in tbl : r.tournament_id = tid /\ r.section_id = sid
        THEN [ok |-> FALSE, section_id |-> sid, section |-> tbl]
        ELSE [ok |-> TRUE, section_id |-> sid,
              section |-> tbl \cup {[tournament_id |-> tid, section_id |-> sid,
                                     section_name |-> name]}]

\* player_data["id"][4:] if len(player_data["id"]) > 4 else player_data["id"]
ShortId(id) == IF Len(id) > 4 THEN SubSeq(id, 5, Len(id)) ELSE id

\* lines 107-132; KeyError when the player has no "id", or is new and has
\* no "last name" or "first name"
insert_player(tbl, pl) ==
    IF "id" \notin pl.keys THEN [ok |-> FALSE, player_id |-> "", player_rows |-> tbl]
    ELSE LET player_id == ShortId(pl.id)
         IN  IF \E r \in tbl : r.id = player_id
             THEN [ok |-> TRUE, player_id |-> player_id, player_rows |-> tbl]
             ELSE IF ~({"last name", "first name"} \subseteq pl.keys)
             THEN [ok |-> FALSE, player_id |-> player_id, player_rows |-> tbl]
             ELSE [ok |-> TRUE, player_id |-> player_id,
                   player_rows |-> tbl \cup {[id |-> player_id,
                                              last_name |-> pl.last_name,
                                              first_name |-> pl.first_name]}]

\* player_data.get(k) for a column
Column(pl, k, v) == IF k \in pl.keys THEN {v} ELSE {}

\* lines 158-179: INSERT OR REPLACE on (player_id, tournament_id, section_id)
insert_player_tournament(tbl, player_id, tid, sid, pl) ==
    {r \in tbl : ~(r.player_id = player_id /\ r.tournament_id = tid
                   /\ r.section_id = sid)}
    \cup {[player_id |-> player_id, tournament_id |-> tid, section_id |-> sid,
           start_rating |-> Column(pl, "start", pl.start),
           end_rating |-> Column(pl, "end", pl.end),
           games |-> Column(pl, "gms", pl.gms),
           score |-> Column(pl, "tot", pl.tot)]}

\* lines 181-186: {} for None
RECURSIVE get_opponent_id_by_position(_, _)
get_opponent_id_by_position(players_in_section, opponent_pos) ==
    IF players_in_section = <<>> THEN {}
    ELSE IF Head(players_in_section).pos = opponent_pos
    THEN {ShortId(Head(players_in_section).id)}
    ELSE get_opponent_id_by_position(Tail(players_in_section), opponent_pos)

\* lines 198-236: the rounds of one player
RECURSIVE InsertRounds(_, _, _, _, _, _)
InsertRounds(tbl, tid, sid, player_id, rds, players_in_section) ==
    IF rds = <<>> THEN tbl
    ELSE LET round_name == Head(rds).round
             result_code == Head(rds).res
             rest == SubSeq(result_code, 2, Len(result_code))
             opponent_id == get_opponent_id_by_position(players_in_section,
                                                        IntVal(rest))
             tbl1 ==
                 IF Len(result_code) < 2 THEN tbl
                 ELSE IF Ch(result_code, 1) \notin {"W", "L", "D"} THEN tbl
                 ELSE IF ~IntParses(rest) THEN tbl
                 ELSE IF opponent_id = {} \/ opponent_id = {""} THEN tbl
                 ELSE {r \in tbl : ~(r.tournament_id = tid
                                     /\ r.player_id = player_id
                                     /\ r.section_id = sid
                                     /\ r.round = round_name)}
                      \cup {[tournament_id |-> tid, player_id |-> player_id,
                             section_id |-> sid, round |-> round_name,
                             opponent_id |-> CHOOSE o \in opponent_id : TRUE,
                             result |-> Ch(result_code, 1)]}
         IN  InsertRounds(tbl1, tid, sid, player_id, Tail(rds),
                          players_in_section)

\* lines 188-238, for players that all went through insert_player and so
\* have an "id"; rest is the players still to handle
RECURSIVE insert_games(_, _, _, _, _)
insert_games(tbl, tid, sid, rest, players_in_section) ==
    IF rest = <<>> THEN tbl
    ELSE LET pl == Head(rest)
             tbl1 == IF "rds" \notin pl.keys THEN tbl
                     ELSE InsertRounds(tbl, tid, sid, ShortId(pl.id), pl.rds,
                                       players_in_section)
         IN  insert_games(tbl1, tid, sid, Tail(rest), players_in_section)

\* lines 271-273: insert_player and insert_player_tournament for each player,
\* every call committing, until one raises
RECURSIVE FirstPass(_, _, _, _, _)
FirstPass(prows, ptrows, tid, sid, rest) ==
    IF rest = <<>>
    THEN [ok |-> TRUE, player_rows |-> prows, player_tournament |-> ptrows]
    ELSE LET ip == insert_player(prows, Head(rest))
         IN  IF ~ip.ok
             THEN [ok |-> FALSE, player_rows |-> prows,
                   player_tournament |-> ptrows]
             ELSE FirstPass(ip.player_rows,
                            insert_player_tournament(ptrows, ip.player_id, tid,
                                                     sid, Head(rest)),
                            tid, sid, Tail(rest))

\* the reports: up to MaxSections sections each, process_chess_data run
\* at most MaxProcessRuns times, insert_section called on its own at most
\* MaxDirectCalls times
MaxSections == 2
MaxProcessRuns == 2
MaxDirectCalls == 2

DatedInfo(i) ==
    Put(Put(Put(EmptyDict, "tournament", TournamentNames[i]),
            "date", "Jun 14, 2025"), "url", "u")

\* a report whose heading had no date
UndatedInfo == Put(Put(EmptyDict, "tournament", TournamentNames[1]), "url", "u")

Al ==
    [keys |-> {"pos", "id", "last name", "first name", "start", "end", "gms",
               "rds", "tot"},
     pos |-> 1, id |-> "ABCD1234", last_name |-> "Roe", first_name |-> "Al",
     start |-> 1500, end |-> 1510, gms |-> 9,
     rds |-> <<[round |-> "rd1", res |-> "W2"]>>, tot |-> 1]

Bo ==
    [keys |-> {"pos", "id", "last name", "first name", "end", "rds"},
     pos |-> 2, id |-> "EFGH5678", last_name |-> "Poe", first_name |-> "Bo",
     start |-> 0, end |-> 1400, gms |-> 0,
     rds |-> <<[round |-> "rd1", res |-> "L1"]>>, tot |-> 0]

\* a player record without an "id"
Anon ==
    [keys |-> {"pos", "last name", "first name"},
     pos |-> 3, id |-> "", last_name |-> "Doe", first_name |-> "",
     start |-> 0, end |-> 0, gms |-> 0, rds |-> <<>>, tot |-> 0]

\* section.get("section", "") and section.get("results", []) of the i-th
\* section of a report: a section with two players, then one without a
\* "section" and a "results" key, and so on
Section(i) ==
    IF i % 2 = 1 THEN [section |-> "Open", results |-> <<Al, Bo>>]
    ELSE [section |-> "", results |-> <<>>]

\* a section whose second player makes insert_player raise
Unstorable == [section |-> "Novice", results |-> <<Al, Anon, Bo>>]

\* the sections of a report: the first k, or Unstorable and one after it
SectionLists ==
    {[i \in 1..k |-> Section(i)] : k \in 0..MaxSections}
    \cup {<<Unstorable, Section(1)>>}

Reports ==
    {[info |-> DatedInfo(n), sections |-> ss] :
        n \in 1..Len(TournamentNames), ss \in SectionLists}
    \cup {[info |-> UndatedInfo, sections |-> <<Section(1)>>]}

InitStore ==
    /\ StoreIdle
    /\ HeadingIdle
    /\ TableIdle

\* process_chess_data returns: its locals are gone
Return(value) ==
    /\ returned' = value
    /\ data' = NoReport
    /\ tournament_id' = 0
    /\ section_no' = 0
    /\ spc' = "idle"

\* lines 240-260: process_chess_data loads a report and calls
\* insert_tournament; the KeyError is caught at line 281
ProcessStart ==
    /\ spc = "idle"
    /\ runs < MaxProcessRuns
    /\ \E report \in Reports :
         LET it == insert_tournament(tournament, report.info)
         IN  /\ tournament' = it.tournament
             /\ IF it.ok
                THEN /\ data' = report
                     /\ tournament_id' = it.id
                     /\ section_no' = 0
                     /\ returned' = "none"
                     /\ spc' = "sections"
                ELSE Return("False")
    /\ runs' = runs + 1
    /\ UNCHANGED <<section, player_rows, player_tournament, games, section_id,
                   calls, direct_calls>>
    /\ UNCHANGED headVars
    /\ UNCHANGED tableVars

\* lines 263-276: one iteration of the loop over the sections; an exception
\* ends process_chess_data at line 281 with what was committed so far
ProcessSection ==
    /\ spc = "sections"
    /\ section_no < Len(data.sections)
    /\ LET sec == data.sections[section_no + 1]
           ins == insert_section(section, tournament_id, sec.section)
           fp == FirstPass(player_rows, player_tournament, tournament_id,
                           ins.section_id, sec.results)
       IN  /\ section' = ins.section
           /\ section_id' = IF ins.ok THEN ins.section_id ELSE section_id
           /\ calls' = [calls EXCEPT ![tournament_id] = @ + 1]
           /\ IF ~ins.ok
              THEN /\ UNCHANGED <<player_rows, player_tournament, games>>
                   /\ Return("False")
              ELSE /\ player_rows' = fp.player_rows
                   /\ player_tournament' = fp.player_tournament
                   /\ IF ~fp.ok
                      THEN /\ UNCHANGED games
                           /\ Return("False")
                      ELSE /\ games' = insert_games(games, tournament_id,
                                                    ins.section_id, sec.results,
                                                    sec.results)
                           /\ section_no' = section_no + 1
                           /\ UNCHANGED <<data, tournament_id, returned, spc>>
    /\ UNCHANGED <<tournament, runs, direct_calls>>
    /\ UNCHANGED headVars
    /\ UNCHANGED tableVars

\* lines 278-279: every section handled
ProcessReturn ==
    /\ spc = "sections"
    /\ section_no = Len(data.sections)
    /\ Return("True")
    /\ UNCHANGED <<tournament, section, player_rows, player_tournament, games,
                   section_id, calls, runs, direct_calls>>
    /\ UNCHANGED headVars
    /\ UNCHANGED tableVars

\* insert_section called on its own, before, after or between the calls
\* process_chess_data makes; the schema's FOREIGN KEY is not enforced, so
\* the tournament need not exist
InsertSectionCall ==
    /\ direct_calls < MaxDirectCalls
    /\ \E tid \in TournamentIds :
         LET ins == insert_section(section, tid, "Extra")
         IN  /\ section' = ins.section
             /\ section_id' = IF ins.ok THEN ins.section_id ELSE section_id
             /\ calls' = [calls EXCEPT ![tid] = @ + 1]
    /\ direct_calls' = direct_calls + 1
    /\ UNCHANGED <<tournament, player_rows, player_tournament, games, data,
                   tournament_id, section_no, runs, returned, spc>>
    /\ UNCHANGED headVars
    /\ UNCHANGED tableVars

NextStore == ProcessStart \/ ProcessSection \/ ProcessReturn \/ InsertSectionCall

SpecStore == InitStore /\ [][NextStore]_vars

Init == InitHeading \/ InitTable \/ InitStore
Next == NextHeading \/ NextTable \/ NextStore
Spec == Init /\ [][Next]_vars

(***************************************************************************)
(* Properties of parse_section_results                                     *)
(***************************************************************************)
\* the row loop has just appended the row whose tokens are in parts
RowAppended == tpc = "rows" /\ Len(parts) >= 10 /\ Has(player, "rds")

\* the row loop has just handled, without raising, a line of at least ten
\* tokens whose first token is an integer
RowScanned ==
    /\ tpc = "rows"
    /\ line_no > 2
    /\ parts = SplitWs(lines[line_no - 1])
    /\ Len(parts) >= 10
    /\ IntParses(parts[1])

\* C1: parse_section_results never fails: whatever the table text, and
\* however many '/' the end-rating/games token of a row holds, the call does
\* not raise and returns after every line of the section was processed.
C1_NeverFails ==
    /\ tpc # "raised"
    /\ tpc = "done" => line_no = Len(lines) + 1

\* the tokens with the one at 0-based index i made unparsable as a number
GarbleAt(ps, i) == [ps EXCEPT ![i + 1] = "x" \o ps[i + 1]]

\* index of the end-rating token of an appended row
EndIdx(ps, pl) == NameEnd(ps) + (IF Has(pl, "start") THEN 2 ELSE 1)

\* the numeric cells of an appended row: the start rating, the end rating
NumericCells(ps, pl) ==
    (IF Has(pl, "start") THEN {[at |-> NameEnd(ps) + 1, field |-> "start"]} ELSE {})
    \cup (IF Has(pl, "end") THEN {[at |-> EndIdx(ps, pl), field |-> "end"]} ELSE {})

\* dict a is dict b without key f
SameExcept(a, b, f) ==
    /\ DOMAIN a = DOMAIN b \ {f}
    /\ \A k \in DOMAIN a : a[k] = b[k]

\* C2: a single malformed numeric cell never desynchronizes the row: with
\* the start-rating token or the end-rating (part of the) token of an
\* accepted row replaced by a token that is no number, the row is still
\* produced with the same names, ID, rounds and total, and only the field of
\* the malformed cell is unset.
C2_MalformedCellKeepsAlignment ==
    RowAppended =>
        \A cell \in NumericCells(parts, player) :
            LET g == ParseRow(GarbleAt(parts, cell.at), round_columns)
            IN  /\ g.outcome = "append"
                /\ SameExcept(g.player, player, cell.field)

IntMin(a, b) == IF a <= b THEN a ELSE b
IntMax(a, b) == IF a >= b THEN a ELSE b

\* the header's tokens
HeaderParts == SplitWs(Strip(lines[1]))

\* 1-based indices of the tokens 'rd<digits>' of the header tokens hp
RoundIndices(hp) == {j \in 1..Len(hp) : IsRoundLabel(hp[j])}

\* the label of the i-th (0-based) round column among the header tokens hp
RoundLabel(hp, i) ==
    LET rs == RoundIndices(hp)
    IN  hp[CHOOSE j \in rs : Cardinality({h \in rs : h < j}) = i]

\* C3: positional round alignment: with R the number of 'rd<digits>' header
\* tokens and c the cursor after the rating/games fields, an appended row has
\* min(R, max(0, tokenCount - c)) rounds, the i-th with the i-th header round
\* label and the token at index c + i, and its total is the float at index
\* c + R, unset when that index does not exist or the token is no float.
C3_PositionalRounds ==
    RowAppended =>
        LET hp == HeaderParts
            R == Cardinality(RoundIndices(hp))
            c == first_round_idx
            n == Len(parts)
            rds == player["rds"]
        IN  /\ player = results[Len(results)]
            /\ Len(rds) = IntMin(R, IntMax(0, n - c))
            /\ \A i \in 0..(Len(rds) - 1) :
                   /\ At(rds, i).round = RoundLabel(hp, i)
                   /\ At(rds, i).res = At(parts, c + i)
            /\ Has(player, "tot") <=> (c + R < n /\ FloatParses(At(parts, c + R)))
            /\ Has(player, "tot") => player["tot"] = FloatVal(At(parts, c + R))

\* a row whose header has more round columns than the row has tokens left
C3_Witness ==
    /\ RowAppended
    /\ Len(player["rds"]) >= 1
    /\ Len(player["rds"]) < Cardinality(RoundIndices(HeaderParts))
    /\ first_round_idx + Len(player["rds"]) = Len(parts)
    /\ ~Has(player, "tot")

\* index of the first ID-shaped token at index 1 or later, -1 when none
IdAnchor(ps) ==
    LET hits == {i \in 1..(Len(ps) - 1) : IsIdToken(At(ps, i))}
    IN  IF hits = {} THEN 0 - 1 ELSE SetMin(hits)

\* C4: ID-anchored name parsing: the ID is the first ID-shaped token at
\* index 1 or later (token 0 is never the anchor); the row is skipped when
\* there is none or it is at index 1; otherwise externalId is that token,
\* lastName is token 1 without trailing comma and firstName the tokens from
\* index 2 up to the ID, joined by single spaces.
C4_IdAnchoredNames ==
    RowScanned =>
        LET a == IdAnchor(parts)
        IN  IF a < 2 THEN ~Has(player, "rds")
            ELSE /\ Has(player, "rds")
                 /\ player["id"] = At(parts, a)
                 /\ player["last name"] = RStripComma(At(parts, 1))
                 /\ player["first name"] = JoinSp(SubSeq(parts, 3, a))

\* the line is a row the claim accepts
Accepted(line) ==
    /\ Strip(line) # ""
    /\ Len(SplitWs(line)) >= 10
    /\ IntParses(SplitWs(line)[1])
    /\ IdAnchor(SplitWs(line)) >= 2

RECURSIVE AcceptedLines(_)
AcceptedLines(ls) ==
    IF Len(ls) = 0 THEN <<>>
    ELSE (IF Accepted(ls[1]) THEN <<ls[1]>> ELSE <<>>) \o AcceptedLines(Tail(ls))

\* C5: row acceptance: the output holds, in input order, exactly one record
\* for each non-blank line after the header with at least 10 tokens, an
\* integer token 0 and an ID anchor at index 2 or later, and none for any
\* other line.
C5_RowAcceptance ==
    tpc = "done" =>
        LET acc == AcceptedLines(Tail(lines))
        IN  /\ Len(results) = Len(acc)
            /\ \A j \in 1..Len(acc) :
                   /\ results[j]["pos"] = IntVal(SplitWs(acc[j])[1])
                   /\ results[j]["id"] = At(SplitWs(acc[j]), IdAnchor(SplitWs(acc[j])))

\* the token is 'E/' with E an integer
IsRatingSlash(tok) ==
    /\ EndsWith(tok, "/")
    /\ IntParses(Upto(tok, Len(tok) - 1))

\* the token is 'E/G' with E and G integers
IsRatingSlashGames(tok) ==
    /\ Len(Split(tok, "/")) = 2
    /\ IntParses(Split(tok, "/")[1])
    /\ IntParses(Split(tok, "/")[2])

\* C6: combined rating/games formats: 'E/G' sets both fields and advances one
\* token; 'E/' followed by an integer token G sets both and advances two;
\* 'E/' followed by a non-integer token sets endRating only and advances one;
\* a bare integer E sets endRating, and gamesPlayed only from a following
\* bare digit sequence, which is then consumed.
C6_RatingGamesFormats ==
    RowAppended =>
        LET e == EndIdx(parts, player)
            tok == At(parts, e)
            hasNext == e + 1 < Len(parts)
            c == first_round_idx
            Sets(E, G) == /\ Has(player, "end") /\ player["end"] = IntVal(E)
                          /\ Has(player, "gms") /\ player["gms"] = IntVal(G)
            SetsEnd(E) == /\ Has(player, "end") /\ player["end"] = IntVal(E)
                          /\ ~Has(player, "gms")
        IN  /\ IsRatingSlashGames(tok) =>
                   Sets(Split(tok, "/")[1], Split(tok, "/")[2]) /\ c = e + 1
            /\ IsRatingSlash(tok) /\ hasNext /\ IntParses(At(parts, e + 1)) =>
                   Sets(Upto(tok, Len(tok) - 1), At(parts, e + 1)) /\ c = e + 2
            /\ IsRatingSlash(tok) /\ hasNext /\ ~IntParses(At(parts, e + 1)) =>
                   SetsEnd(Upto(tok, Len(tok) - 1)) /\ c = e + 1
            /\ IntParses(tok) /\ hasNext /\ IsDigit(At(parts, e + 1)) =>
                   Sets(tok, At(parts, e + 1)) /\ c = e + 2
            /\ IntParses(tok) /\ hasNext /\ ~IsDigit(At(parts, e + 1)) =>
                   SetsEnd(tok) /\ c = e + 1

(***************************************************************************)
(* Properties of extract_tournament_info                                   *)
(***************************************************************************)
\* the date step has run on a heading whose first line holds a date
DateInFirst == hpc = "date_done" /\ HasDate(head_lines[1])

\* the date step has run on a heading whose first line holds no date
NoDateInFirst == hpc = "date_done" /\ ~HasDate(head_lines[1])

\* the trimmed text of the line after its date match
AfterDate(line) == Strip(From(line, DateSearch(line).end + 1))

\* the trimmed text of the line before its date match
BeforeDate(line) == Strip(Upto(line, DateSearch(line).start - 1))

\* C7: date in the first heading line: date is the matched text, the name is
\* the trimmed text before the match and never contains the date string, and
\* the address is the whole trimmed text after the matched date whenever that
\* text is non-empty, also when it holds another date occurrence.
C7_DateInFirstLine ==
    DateInFirst =>
        /\ tournament_info["date"] = DateGroup(head_lines[1])
        /\ tournament_info["tournament"] = BeforeDate(head_lines[1])
        /\ ~Contains(tournament_info["tournament"], tournament_info["date"])
        /\ AfterDate(head_lines[1]) # "" =>
               /\ Has(tournament_info, "address")
               /\ tournament_info["address"] = AfterDate(head_lines[1])

\* indices of the lines after the first that hold a date
LaterDateLines == {i \in 2..Len(head_lines) : HasDate(head_lines[i])}

\* C8: no date in the first heading line: the name is exactly the first line;
\* the first later line with a date match supplies date, the trimmed text
\* after the match on that line becomes the address if non-empty; with no
\* such line date is absent.
C8_DateInLaterLine ==
    NoDateInFirst =>
        /\ tournament_info["tournament"] = head_lines[1]
        /\ IF LaterDateLines = {}
           THEN ~Has(tournament_info, "date") /\ ~Has(tournament_info, "address")
           ELSE LET line == head_lines[SetMin(LaterDateLines)]
                IN  /\ tournament_info["date"] = DateGroup(line)
                    /\ IF AfterDate(line) # ""
                       THEN /\ Has(tournament_info, "address")
                            /\ tournament_info["address"] = AfterDate(line)
                       ELSE ~Has(tournament_info, "address")

\* C9: name invariant: for a heading with at least one non-blank line the
\* returned record has a non-empty name, the whole first line when it holds
\* no date.
C9_NameNonEmpty ==
    (hpc = "done" /\ Len(head_lines) > 0) =>
        /\ Has(tournament_info, "tournament")
        /\ tournament_info["tournament"] # ""
        /\ ~HasDate(head_lines[1]) => tournament_info["tournament"] = head_lines[1]

\* indices of the lines after the first the address fallback may take
AddressCandidates ==
    {i \in 2..Len(head_lines) :
        /\ ~(Has(tournament_info, "date")
             /\ Contains(head_lines[i], tournament_info["date"]))
        /\ ~Contains(head_lines[i], "TD:")}

\* the address, when present with a date, does not contain the date string
AddressFreeOfDate ==
    (Has(tournament_info, "address") /\ Has(tournament_info, "date")) =>
        ~Contains(tournament_info["address"], tournament_info["date"])

\* what the address fallback does to the record the date step left
FallbackStep ==
    (hpc = "date_done" /\ hpc' = "address_done") =>
        IF Has(tournament_info, "address") \/ AddressCandidates = {}
        THEN tournament_info' = tournament_info
        ELSE /\ DOMAIN tournament_info' = DOMAIN tournament_info \cup {"address"}
             /\ \A k \in DOMAIN tournament_info :
                    tournament_info'[k] = tournament_info[k]
             /\ tournament_info'["address"] = head_lines[SetMin(AddressCandidates)]

\* C10: address fallback: when the date step set no address, the address is
\* the first line after the first that contains neither the extracted date
\* string nor 'TD:', verbatim, and stays absent when there is none; an
\* address of the date step is never overridden; and the address of a record
\* never contains the extracted date string.
C10_AddressFallback == [][FallbackStep /\ AddressFreeOfDate']_vars

\* the fallback skipped the line holding the date and took the next one
C10_Witness ==
    /\ hpc = "address_done"
    /\ Len(head_lines) >= 3
    /\ ~HasDate(head_lines[1])
    /\ Has(tournament_info, "date")
    /\ head_lines[2] = tournament_info["date"]
    /\ Has(tournament_info, "address")
    /\ tournament_info["address"] = head_lines[3]

\* the section ids stored for tournament t
SectionIds(t) == {r.section_id : r \in SectionRows(section, t)}

\* MAX(section_id) of tournament t, 0 when it has no section
MaxSectionId(t) == IF SectionIds(t) = {} THEN 0 ELSE SetMax(SectionIds(t))

\* the ids of every tournament are 1..n after n insert_section calls for it,
\* one row for each
SequentialIds ==
    /\ \A r \in section : r.tournament_id \in TournamentIds
    /\ \A t \in TournamentIds :
         /\ SectionIds(t) = 1..calls[t]
         /\ Cardinality(SectionRows(section, t)) = calls[t]

\* a step is one insert_section call for tournament t
CallFor(t) == calls'[t] # calls[t]

\* what one insert_section call for tournament t does
CallEffect(t) ==
    /\ calls'[t] = calls[t] + 1
    /\ section_id' = MaxSectionId(t) + 1
    /\ section_id' \notin SectionIds(t)
    /\ section \subseteq section'
    /\ SectionRows(section', t) \ section
         = {r \in section' : r.tournament_id = t /\ r.section_id = section_id'}
    /\ \A u \in TournamentIds \ {t} :
         /\ calls'[u] = calls[u]
         /\ SectionRows(section', u) = SectionRows(section, u)

\* C11: after any sequence of insert_section calls, made by
\* process_chess_data (the same report more than once included) or on their
\* own and for any tournaments, every tournament's stored section ids are
\* exactly 1..n, n the number of calls made for it; each call returns the
\* tournament's previous maximum plus one, an id the tournament did not have,
\* keeps every stored row and leaves the other tournaments' rows alone; a
\* step that is not such a call leaves table section alone.
C11_SequentialSectionIds ==
    [][/\ SequentialIds'
       /\ \A t \in TournamentIds : CallFor(t) => CallEffect(t)
       /\ (\A t \in TournamentIds : ~CallFor(t)) => section' = section]_vars

\* one report with two sections was processed twice into tournament 1, whose
\* sections 3 and 4 repeat the names of 1 and 2, and insert_section was
\* also called on its own for tournament 2, which no report created
C11_Witness ==
    /\ runs = 2
    /\ returned = "True"
    /\ Len(tournament) = 1
    /\ calls[1] = 4
    /\ calls[2] >= 1
    /\ SectionIds(1) = 1..4
    /\ SectionIds(2) = 1..calls[2]
    /\ \A i \in 1..2 : \E r1, r2 \in SectionRows(section, 1) :
         /\ r1.section_id = i
         /\ r2.section_id = i + 2
         /\ r1.section_name = r2.section_name

====
